---- MODULE Spec2Model ----
(***************************************************************************)
(* A model of nbpy: NBPClient (src/nbpy/__init__.py), its lru_cache-wrapped *)
(* _get_response_data, and NBPExchangeRate (src/nbpy/exchange_rate.py).     *)
(*                                                                         *)
(* Conventions.                                                            *)
(*  - A Python dict is a sequence of entries in insertion order.           *)
(*  - A date string 'YYYY-MM-DD' of one fixed non-leap year is the number  *)
(*    MM*100+DD; string order on such dates is numeric order.              *)
(*  - The upstream API is the environment: each call draws the order in    *)
(*    which the table set is iterated and one response per table.          *)
(*  - as_float only picks the class numbers are parsed into; numbers are   *)
(*    integers here and the flag is left out.                              *)
(***************************************************************************)
EXTENDS Integers, Sequences, FiniteSets, TLC

VARIABLES
    client,   \* the NBPClient: constructed, currency_code, suppress_api_errors, cache_size
    cache,    \* the lru_cache of _get_response_data, least recently used first
    last,     \* what the most recent query call was given and what it did
    recency,  \* history: keys of the calls that returned, least recent first
    exc,      \* the most recent construction or currency_code assignment
    rate,     \* an NBPExchangeRate object held by the caller
    conv,     \* the results of the most recent conversion with rate
    upstream  \* SpecData: what each table answers, fixed over a behaviour

vars == <<client, cache, last, recency, exc, rate, conv, upstream>>

\* ------------------------------------------------------------------ bounds

MaxCache == 2      \* cache_size ranges over 0..MaxCache in SpecLRU
MaxN == 1          \* last(n) for n in 1..MaxN
MaxRows == 2       \* rows in one table response (SpecData)
MaxAmount == 2     \* amounts and rate values range over 1..MaxAmount

\* ------------------------------------------------------------- strings

\* str.upper() on the currency codes the model uses
Upper(s) ==
    CASE s = "usd" -> "USD"
      [] s = "Usd" -> "USD"
      [] s = "afn" -> "AFN"
      [] s = "xxx" -> "XXX"
      [] OTHER -> s

\* str.lower() on codes and table letters
Lower(s) ==
    CASE s = "USD" -> "usd"
      [] s = "Usd" -> "usd"
      [] s = "AFN" -> "afn"
      [] s = "XXX" -> "xxx"
      [] s = "A" -> "a"
      [] s = "B" -> "b"
      [] s = "C" -> "c"
      [] OTHER -> s

\* nbpy.currencies.currencies: code -> tables
currencies == [c \in {"USD", "AFN"} |-> IF c = "USD" THEN {"A", "C"} ELSE {"B"}]

CodeInputs == {"usd", "USD", "afn", "xxx"}

\* ------------------------------------------------------------- dates

DaysIn(m) == IF m = 2 THEN 28 ELSE IF m \in {4, 6, 9, 11} THEN 30 ELSE 31

\* nbpy.utils.validate_date: TRUE when the date is well formed (no InvalidDate)
validate_date(d) ==
    LET m == d \div 100
        day == d % 100
    IN  m \in 1..12 /\ day \in 1..DaysIn(m)

DateInputs == {228, 230}

\* ------------------------------------------------------------- dicts

\* index of the entry of dict `rates` for date d, 0 when absent
IndexOf(rates, d) ==
    IF \E i \in 1..Len(rates) : rates[i].effectiveDate = d
    THEN CHOOSE i \in 1..Len(rates) : rates[i].effectiveDate = d
    ELSE 0

\* dict.update on two rows: the keys of both, b's values winning
Update(a, b) ==
    [k \in DOMAIN a \cup DOMAIN b |-> IF k \in DOMAIN b THEN b[k] ELSE a[k]]

\* {rate['effectiveDate']: rate for rate in _data}: the last row of a date wins,
\* at the place of the date's first row
RECURSIVE ByDate(_, _)
ByDate(rows, acc) ==
    IF rows = <<>> THEN acc
    ELSE LET r == Head(rows)
             i == IndexOf(acc, r.effectiveDate)
         IN  ByDate(Tail(rows),
                    IF i = 0 THEN Append(acc, r) ELSE [acc EXCEPT ![i] = r])

\* rates[date].update(_data[date])
MergeRow(old, new) == Update(old, new)

\* for date in _data: update the entry of rates, or add it
RECURSIVE Merge(_, _)
Merge(rates, data) ==
    IF data = <<>> THEN rates
    ELSE LET r == Head(data)
             i == IndexOf(rates, r.effectiveDate)
         IN  Merge(IF i = 0 THEN Append(rates, r)
                   ELSE [rates EXCEPT ![i] = MergeRow(rates[i], r)],
                   Tail(data))

\* ---------------------------------------------------- NBPExchangeRate

\* NBPExchangeRate.__init__ once the currency_code setter has accepted the code:
\* bid and ask are set only when kwargs holds both
NBPExchangeRate(currency_code, date, source_id, mid, kwargs) ==
    IF "bid" \in DOMAIN kwargs /\ "ask" \in DOMAIN kwargs
    THEN [currency_code |-> Upper(currency_code), date |-> date,
          source_id |-> source_id, mid |-> mid,
          bid |-> kwargs.bid, ask |-> kwargs.ask]
    ELSE [currency_code |-> Upper(currency_code), date |-> date,
          source_id |-> source_id, mid |-> mid]

call_midOnly(r, amount_in_pln) == [mid |-> r.mid * amount_in_pln]

\* NBPExchangeRate.__call__: reading self.bid or self.ask of an object without it
\* raises AttributeError, and the handler returns mid alone
call(r, amount_in_pln) ==
    IF "bid" \in DOMAIN r /\ "ask" \in DOMAIN r
    THEN [bid |-> r.bid * amount_in_pln,
          ask |-> r.ask * amount_in_pln,
          mid |-> r.mid * amount_in_pln]
    ELSE [mid |-> r.mid * amount_in_pln]

\* NBPExchangeRate.__mul__
mul(r, amount_in_pln) == call(r, amount_in_pln)

\* NBPExchangeRate.__rmul__
rmul(r, amount_in_pln) == call(r, amount_in_pln)

\* --------------------------------------------------- _get_response_data

tables_keepsC(code, all_values) == currencies[code]

\* currencies[code].tables.copy(), without 'C' unless all_values
tables(code, all_values) ==
    IF all_values THEN currencies[code] ELSE currencies[code] \ {"C"}

\* the orders in which a set can be iterated
Orders(S) ==
    {o \in [1..Cardinality(S) -> S] : {o[i] : i \in 1..Cardinality(S)} = S}

\* one GET: the request as sent (uri in lower case) and whether it succeeded
Request(code, t, r) == [table |-> Lower(t), code |-> Lower(code), ok |-> r.ok]

RECURSIVE FetchLoop_continues(_, _, _, _, _, _)
FetchLoop_continues(code, order, resp, i, rates, reqs) ==
    IF i > Len(order)
    THEN [failed |-> \E j \in 1..Len(reqs) : ~reqs[j].ok, rates |-> rates,
          reqs |-> reqs]
    ELSE LET t == order[i]
             r == resp[t]
         IN  FetchLoop_continues(code, order, resp, i + 1,
                 IF r.ok THEN Merge(rates, ByDate(r.rows, <<>>)) ELSE rates,
                 Append(reqs, Request(code, t, r)))

\* the for loop over the tables: one GET each, the responses merged by date;
\* the except branch leaves the loop at the first failing request
RECURSIVE FetchLoop(_, _, _, _, _, _)
FetchLoop(code, order, resp, i, rates, reqs) ==
    IF i > Len(order) THEN [failed |-> FALSE, rates |-> rates, reqs |-> reqs]
    ELSE LET t == order[i]
             r == resp[t]
             sent == Append(reqs, Request(code, t, r))
         IN  IF ~r.ok
             THEN [failed |-> TRUE, rates |-> rates, reqs |-> sent]
             ELSE FetchLoop(code, order, resp, i + 1,
                            Merge(rates, ByDate(r.rows, <<>>)), sent)

sorted_unsorted(rs) == rs

\* x put into the sorted acc behind every element whose date is not later
InsertByDate(acc, x) ==
    LET k == Cardinality({i \in 1..Len(acc) : acc[i].date <= x.date})
    IN  SubSeq(acc, 1, k) \o <<x>> \o SubSeq(acc, k + 1, Len(acc))

\* sorted(..., key=lambda rate: rate.date): a stable sort
RECURSIVE sorted(_)
sorted(rs) ==
    IF rs = <<>> THEN <<>>
    ELSE InsertByDate(sorted(SubSeq(rs, 1, Len(rs) - 1)), rs[Len(rs)])

\* if 'mid' in rate
HasMid(row) == "mid" \in DOMAIN row

\* the keyword arguments left of **rate once source_id and mid are bound
Kwargs(row) == [k \in DOMAIN row \ {"source_id", "mid"} |-> row[k]]

\* the list comprehension of the return statement
RECURSIVE Records(_, _)
Records(code, rates) ==
    IF rates = <<>> THEN <<>>
    ELSE LET row == Head(rates)
         IN  (IF HasMid(row)
              THEN <<NBPExchangeRate(code, row.effectiveDate, row.source_id,
                                     row.mid, Kwargs(row))>>
              ELSE <<>>) \o Records(code, Tail(rates))

\* the end of _get_response_data, given what the loop over the tables left
Respond(code, suppress, got) ==
    IF got.failed
    THEN IF suppress
         THEN [raised |-> "", none |-> TRUE, val |-> <<>>, reqs |-> got.reqs]
         ELSE [raised |-> "APIError", none |-> FALSE, val |-> <<>>,
               reqs |-> got.reqs]
    ELSE IF \E i \in 1..Len(got.rates) :
                HasMid(got.rates[i]) /\ "source_id" \notin DOMAIN got.rates[i]
         THEN [raised |-> "TypeError", none |-> FALSE, val |-> <<>>,
               reqs |-> got.reqs]
         ELSE [raised |-> "", none |-> FALSE,
               val |-> sorted(Records(code, got.rates)), reqs |-> got.reqs]

\* NBPClient._get_response_data (the undecorated method): what it raises or
\* returns (none: it returned None) and the requests it sent
get_response_data(code, suppress, order, resp) ==
    Respond(code, suppress, FetchLoop(code, order, resp, 1, <<>>, <<>>))

\* ------------------------------------------------------------ lru_cache

\* the place of key in the cache, 0 when absent
Cached(c, key) ==
    IF \E i \in 1..Len(c) : c[i].key = key
    THEN CHOOSE i \in 1..Len(c) : c[i].key = key
    ELSE 0

Without(c, i) == SubSeq(c, 1, i - 1) \o SubSeq(c, i + 1, Len(c))

Hit_keepsPlace(c, i) == c

\* a hit moves the entry to the most recently used end
Hit(c, i) == Append(Without(c, i), c[i])

\* a miss stores the result, dropping the least recently used entry when full
Store(c, maxsize, entry) ==
    IF Len(c) >= maxsize THEN Append(Tail(c), entry) ELSE Append(c, entry)

Lookup_alwaysMisses(c, maxsize, key) == 0

\* functools.lru_cache looks the key up; with maxsize 0 it keeps no cache at all
Lookup(c, maxsize, key) == IF maxsize = 0 THEN 0 ELSE Cached(c, key)

\* functools.lru_cache(maxsize)(self._get_response_data) called with
\* (uri_tail, all_values): the cache after the call and the call's outcome;
\* `raw` is what the undecorated method would do, used only on a miss
lru_cache(c, maxsize, key, raw) ==
    LET i == Lookup(c, maxsize, key)
    IN  IF i > 0
        THEN [cache |-> Hit(c, i), hit |-> TRUE,
              out |-> [raised |-> "", none |-> c[i].none, val |-> c[i].val,
                       reqs |-> <<>>]]
        ELSE IF maxsize = 0 \/ raw.raised # ""
             THEN [cache |-> c, hit |-> FALSE, out |-> raw]
             ELSE [cache |-> Store(c, maxsize,
                                   [key |-> key, none |-> raw.none, val |-> raw.val]),
                   hit |-> FALSE, out |-> raw]

\* ------------------------------------------------------------- NBPClient

NoTail == [kind |-> "", a |-> 0, b |-> 0]
NoKey == [tail |-> NoTail, all |-> FALSE]

client_setter_asGiven(code) ==
    IF Upper(code) \notin DOMAIN currencies
    THEN [raised |-> "UnknownCurrencyCode", value |-> ""]
    ELSE [raised |-> "", value |-> code]

\* NBPClient.currency_code setter: what it raises, or the value it stores
client_setter(code) ==
    IF Upper(code) \notin DOMAIN currencies
    THEN [raised |-> "UnknownCurrencyCode", value |-> ""]
    ELSE [raised |-> "", value |-> Upper(code)]

\* NBPExchangeRate.currency_code setter
rate_setter(code) ==
    IF Upper(code) \notin DOMAIN currencies
    THEN [raised |-> "UnknownCurrencyCode", value |-> ""]
    ELSE [raised |-> "", value |-> Upper(code)]

\* nbpy.utils.first_if_sequence: the first element of a sequence that has one
first_if_sequence(out) ==
    IF out.raised # "" THEN [kind |-> "raise", ret |-> <<>>]
    ELSE IF out.none THEN [kind |-> "none", ret |-> <<>>]
    ELSE IF out.val # <<>> THEN [kind |-> "one", ret |-> <<out.val[1]>>]
    ELSE [kind |-> "seq", ret |-> <<>>]

\* a method without the decorator returns what _get_response_data returns
as_returned(out) ==
    IF out.raised # "" THEN [kind |-> "raise", ret |-> <<>>]
    ELSE IF out.none THEN [kind |-> "none", ret |-> <<>>]
    ELSE [kind |-> "seq", ret |-> out.val]

InitClient ==
    /\ client = [constructed |-> FALSE, currency_code |-> "",
                 suppress_api_errors |-> FALSE, cache_size |-> 0]
    /\ cache = <<>>
    /\ last = [n |-> 0, op |-> "", key |-> NoKey, dates |-> <<>>, cur |-> "",
               hit |-> FALSE, reqs |-> <<>>, raised |-> "", kind |-> "",
               ret |-> <<>>]
    /\ recency = <<>>
    /\ exc = [op |-> "", arg |-> "", raised |-> ""]
    /\ rate = <<>>
    /\ conv = <<>>

Init == InitClient /\ upstream = <<>>

\* NBPClient(currency_code, suppress_api_errors=..., cache_size=...)
Construct(code, suppress, size) ==
    /\ ~client.constructed
    /\ LET set == client_setter(code)
       IN  /\ exc' = [op |-> "NBPClient", arg |-> code, raised |-> set.raised]
           /\ client' = IF set.raised # "" THEN client
                        ELSE [constructed |-> TRUE, currency_code |-> set.value,
                              suppress_api_errors |-> suppress, cache_size |-> size]
    /\ UNCHANGED <<cache, last, rate, conv>>

\* client.currency_code = code
SetCurrencyCode(code) ==
    /\ client.constructed
    /\ LET set == client_setter(code)
       IN  /\ exc' = [op |-> "client.currency_code", arg |-> code,
                      raised |-> set.raised]
           /\ client' = IF set.raised # "" THEN client
                        ELSE [client EXCEPT !.currency_code = set.value]
    /\ UNCHANGED <<cache, last, rate, conv>>

\* a query method past its argument checks: self._get_response_data(uri_tail,
\* all_values) through the cache, and the decorator of the method if it has one
Query(op, tail, dates, all_values, first, order, resp) ==
    /\ client.constructed
    /\ order \in Orders(tables(client.currency_code, all_values))
    /\ LET key == [tail |-> tail, all |-> all_values]
           raw == get_response_data(client.currency_code,
                                    client.suppress_api_errors, order, resp)
       IN  \E c \in {lru_cache(cache, client.cache_size, key, raw)} :
           \E r \in {IF first THEN first_if_sequence(c.out) ELSE as_returned(c.out)} :
               /\ cache' = c.cache
               /\ last' = [n |-> 1 - last.n, op |-> op, key |-> key, dates |-> dates,
                           cur |-> client.currency_code, hit |-> c.hit,
                           reqs |-> c.out.reqs, raised |-> c.out.raised,
                           kind |-> r.kind, ret |-> r.ret]
    /\ UNCHANGED <<client, exc, rate, conv>>

\* validate_date raised InvalidDate: no key is formed, nothing is called
InvalidDate(op, dates, all_values) ==
    /\ client.constructed
    /\ last' = [n |-> 1 - last.n, op |-> op,
                key |-> [tail |-> NoTail, all |-> all_values],
                dates |-> dates, cur |-> client.currency_code, hit |-> FALSE,
                reqs |-> <<>>, raised |-> "InvalidDate", kind |-> "raise",
                ret |-> <<>>]
    /\ UNCHANGED <<client, cache, exc, rate, conv>>

\* client.current(all_values), also client(all_values)
Current(all_values, order, resp) ==
    Query("current", [kind |-> "current", a |-> 0, b |-> 0], <<>>, all_values,
          TRUE, order, resp)

\* client.today(all_values)
Today(all_values, order, resp) ==
    Query("today", [kind |-> "today", a |-> 0, b |-> 0], <<>>, all_values,
          TRUE, order, resp)

\* client.last(n, all_values)
Last(n, all_values, order, resp) ==
    Query("last", [kind |-> "last", a |-> n, b |-> 0], <<>>, all_values,
          FALSE, order, resp)

\* client.date(date, all_values)
Date(date, all_values, order, resp) ==
    IF ~validate_date(date)
    THEN InvalidDate("date", <<date>>, all_values)
    ELSE Query("date", [kind |-> "date", a |-> date, b |-> 0], <<date>>,
               all_values, TRUE, order, resp)

DatesValid_startOnly(start_date, end_date) == validate_date(start_date)

\* validate_date(start_date); validate_date(end_date)
DatesValid(start_date, end_date) ==
    validate_date(start_date) /\ validate_date(end_date)

\* client.date_range(start_date, end_date, all_values)
DateRange(start_date, end_date, all_values, order, resp) ==
    IF ~DatesValid(start_date, end_date)
    THEN InvalidDate("date_range", <<start_date, end_date>>, all_values)
    ELSE Query("date_range", [kind |-> "range", a |-> start_date, b |-> end_date],
               <<start_date, end_date>>, all_values, FALSE, order, resp)

\* ------------------------------------------------------ the caller's rate

\* NBPExchangeRate(currency_code, date, source_id, mid, **kwargs) by the caller;
\* `given` keeps the keyword arguments of the construction
RateInit(code, date, source_id, mid, kwargs) ==
    /\ LET set == rate_setter(code)
       IN  /\ exc' = [op |-> "NBPExchangeRate", arg |-> code, raised |-> set.raised]
           /\ rate' = IF set.raised # "" THEN rate
                      ELSE <<[obj |-> NBPExchangeRate(set.value, date, source_id,
                                                      mid, kwargs),
                              mid |-> mid, given |-> kwargs]>>
    /\ UNCHANGED <<client, cache, last, conv>>

\* rate.currency_code = code
RateSetCurrencyCode(code) ==
    /\ rate # <<>>
    /\ LET set == rate_setter(code)
       IN  /\ exc' = [op |-> "rate.currency_code", arg |-> code,
                      raised |-> set.raised]
           /\ rate' = IF set.raised # "" THEN rate
                      ELSE <<[rate[1] EXCEPT !.obj.currency_code = set.value]>>
    /\ UNCHANGED <<client, cache, last, conv>>

\* rate(amount), rate * amount and amount * rate
Convert(amount) ==
    /\ rate # <<>>
    /\ conv' = <<[amount |-> amount, of |-> rate[1],
                  call |-> call(rate[1].obj, amount),
                  mul |-> mul(rate[1].obj, amount),
                  rmul |-> rmul(rate[1].obj, amount)]>>
    /\ UNCHANGED <<client, cache, last, exc, rate>>

\* ------------------------------------------------------------ environment

AllTables == {"A", "B", "C"}

\* the tables a query of the client as it is asks for
TableSet(all_values) ==
    IF client.constructed THEN tables(client.currency_code, all_values) ELSE {}

Failure == [ok |-> FALSE, rows |-> <<>>]

\* one published row of a table: A and B carry mid, C carries bid and ask
PlainRow(t, d) ==
    IF t = "C" THEN [effectiveDate |-> d, source_id |-> 3, bid |-> 1, ask |-> 3]
    ELSE [effectiveDate |-> d, source_id |-> 1, mid |-> 2]

\* Spec, SpecLRU: a request fails or answers with the one row of the table
Thin == [t \in AllTables |-> {Failure, [ok |-> TRUE, rows |-> <<PlainRow(t, 228)>>]}]

\* every assignment of one response of R[t] to each table t of T
RECURSIVE Worlds(_, _)
Worlds(T, R) ==
    IF T = {} THEN {<<>>}
    ELSE LET t == CHOOSE x \in T : TRUE
         IN  {(t :> r) @@ f : r \in R[t], f \in Worlds(T \ {t}, R)}

\* SpecData: rows as upstream may publish them, well formed or not
Rows(t) ==
    IF t = "C"
    THEN {PlainRow(t, 228), PlainRow(t, 430),
          [effectiveDate |-> 430, source_id |-> 3, bid |-> 1],
          [effectiveDate |-> 228, source_id |-> 3, mid |-> 1, bid |-> 1, ask |-> 3]}
    ELSE {PlainRow(t, 228), PlainRow(t, 430),
          [effectiveDate |-> 430, source_id |-> 1],
          [effectiveDate |-> 228, mid |-> 2]}

RECURSIVE RowSeqs(_, _)
RowSeqs(t, n) ==
    IF n = 0 THEN {<<>>}
    ELSE LET shorter == RowSeqs(t, n - 1)
         IN  shorter \cup {Append(s, r) : s \in shorter, r \in Rows(t)}

Rich ==
    [t \in AllTables |->
        {Failure} \cup {[ok |-> TRUE, rows |-> s] : s \in RowSeqs(t, MaxRows)}]

\* -------------------------------------------------------- specifications

\* a call that returned is the most recent use of its key
Touch(h, key) ==
    LET i == IF \E j \in 1..Len(h) : h[j] = key
             THEN CHOOSE j \in 1..Len(h) : h[j] = key ELSE 0
    IN  IF i = 0 THEN Append(h, key)
        ELSE Append(SubSeq(h, 1, i - 1) \o SubSeq(h, i + 1, Len(h)), key)

Track ==
    /\ recency' = IF last'.n # last.n /\ last'.kind \in {"seq", "one", "none"}
                  THEN Touch(recency, last'.key) ELSE recency
    /\ UNCHANGED upstream

Quiet == UNCHANGED <<recency, upstream>>

\* the client and its five query methods, each request failing or answering
Next ==
    \/ \E code \in {"usd", "afn"}, suppress \in BOOLEAN, size \in {0, 1} :
           Construct(code, suppress, size) /\ Quiet
    \/ \E code \in {"usd", "afn"} : SetCurrencyCode(code) /\ Quiet
    \/ \E all_values \in BOOLEAN :
           \E order \in Orders(TableSet(all_values)),
              resp \in Worlds(TableSet(all_values), Thin) :
               Current(all_values, order, resp) /\ Quiet
    \/ \E all_values \in BOOLEAN :
           \E order \in Orders(TableSet(all_values)),
              resp \in Worlds(TableSet(all_values), Thin) :
               Today(all_values, order, resp) /\ Quiet
    \/ \E all_values \in BOOLEAN, n \in 1..MaxN :
           \E order \in Orders(TableSet(all_values)),
              resp \in Worlds(TableSet(all_values), Thin) :
               Last(n, all_values, order, resp) /\ Quiet
    \/ \E all_values \in BOOLEAN, d \in DateInputs :
           \E order \in Orders(TableSet(all_values)),
              resp \in Worlds(TableSet(all_values), Thin) :
               Date(d, all_values, order, resp) /\ Quiet
    \/ \E all_values \in BOOLEAN, s \in DateInputs, e \in DateInputs :
           \E order \in Orders(TableSet(all_values)),
              resp \in Worlds(TableSet(all_values), Thin) :
               DateRange(s, e, all_values, order, resp) /\ Quiet

Spec == Init /\ [][Next]_vars

\* the cache under a history of its use: cache sizes up to MaxCache
NextLRU ==
    \/ \E suppress \in BOOLEAN, size \in 0..MaxCache :
           Construct("USD", suppress, size) /\ Track
    \/ \E all_values \in BOOLEAN :
           \E order \in Orders(TableSet(all_values)),
              resp \in Worlds(TableSet(all_values), Thin) :
               Current(all_values, order, resp) /\ Track
    \/ \E n \in 1..MaxN :
           \E order \in Orders(TableSet(FALSE)),
              resp \in Worlds(TableSet(FALSE), Thin) :
               Last(n, FALSE, order, resp) /\ Track

SpecLRU == Init /\ [][NextLRU]_vars

\* the sequence-returning queries over upstream tables of any content
InitData ==
    /\ InitClient
    /\ upstream \in Worlds({"A", "C"}, Rich) \cup Worlds({"B"}, Rich)

NextData ==
    \/ \E code \in DOMAIN currencies :
           /\ currencies[code] = DOMAIN upstream
           /\ Construct(code, FALSE, 1) /\ Quiet
    \/ \E all_values \in BOOLEAN :
           \E order \in Orders(TableSet(all_values)) :
               Last(1, all_values, order, upstream) /\ Quiet
    \/ \E all_values \in BOOLEAN :
           \E order \in Orders(TableSet(all_values)) :
               DateRange(228, 430, all_values, order, upstream) /\ Quiet

SpecData == InitData /\ [][NextData]_vars

\* currency codes of clients and rates, and conversion
NextRates ==
    \/ \E code \in CodeInputs, suppress \in BOOLEAN :
           Construct(code, suppress, 0) /\ Quiet
    \/ \E code \in CodeInputs : SetCurrencyCode(code) /\ Quiet
    \/ \E code \in CodeInputs, mid \in 1..MaxAmount,
          kwargs \in {<<>>, [bid |-> 1], [ask |-> 3], [bid |-> 1, ask |-> 3]} :
           RateInit(code, 228, 1, mid, kwargs) /\ Quiet
    \/ \E code \in CodeInputs : RateSetCurrencyCode(code) /\ Quiet
    \/ \E amount \in 0..MaxAmount : Convert(amount) /\ Quiet

SpecRates == Init /\ [][NextRates]_vars

\* ------------------------------------------------------------- claims

Returned(l) == l.kind \in {"seq", "one", "none"}
Succeeded(l) == l.kind \in {"seq", "one"}
Failed(l) == \E i \in 1..Len(l.reqs) : ~l.reqs[i].ok
QueryOps == {"current", "today", "last", "date", "date_range"}

\* the tables the registry lists for a currency, the spread table left out
\* unless the spread is asked for, as the uri names them
Relevant(code, all_values) ==
    {Lower(t) : t \in (IF all_values THEN currencies[code]
                       ELSE currencies[code] \ {"C"})}

\* the requests of call l: exactly one GET per relevant table
OnePerTable(l) ==
    /\ Len(l.reqs) = Cardinality(Relevant(l.cur, l.key.all))
    /\ {l.reqs[i].table : i \in 1..Len(l.reqs)} = Relevant(l.cur, l.key.all)

\* the next call repeats the arguments of a call that succeeded
Repeats == last'.n # last.n /\ Succeeded(last) /\ last'.key = last.key

ServedFromCache ==
    /\ last'.reqs = <<>>
    /\ last'.kind = last.kind /\ last'.ret = last.ret
    /\ ~last.hit => OnePerTable(last)

\* C1 as stated: on any client, a call that repeats the arguments of a call
\* that succeeded sends no request and returns the same result, and the two
\* calls together sent one GET per relevant table.
C1_AnyClient == [][Repeats => ServedFromCache]_vars

\* C1, amended: the same on a client whose cache_size is at least 1.
C1_CachingClient == [][(Repeats /\ client.cache_size >= 1) => ServedFromCache]_vars

C1_Witness ==
    /\ client.cache_size >= 1 /\ last.hit /\ last.op = "date_range"
    /\ last.key.all /\ last.cur = "USD" /\ Len(last.ret) = 1

TopK(h, k) == IF Len(h) <= k THEN h ELSE SubSeq(h, Len(h) - k + 1, Len(h))
Keys(c) == [i \in 1..Len(c) |-> c[i].key]
KeySet(c) == {c[i].key : i \in 1..Len(c)}
Recent(h, k) == {TopK(h, k)[i] : i \in 1..Len(TopK(h, k))}

\* C2 (SpecLRU): the cache never holds more than cache_size keys, no key twice,
\* and they are the cache_size keys most recently used by a call that returned,
\* in that order; a call sends no request exactly when its key is among them;
\* and a call that returns with a new key while the cache is full evicts exactly
\* the least recently used key.
C2_LeastRecentlyUsedEvicted ==
    [][/\ Len(cache') <= client'.cache_size
       /\ Cardinality(KeySet(cache')) = Len(cache')
       /\ Keys(cache') = TopK(recency', client'.cache_size)
       /\ last'.n # last.n =>
            /\ last'.reqs = <<>> <=> last'.key \in Recent(recency, client.cache_size)
            /\ ( /\ Returned(last') /\ ~last'.hit
                 /\ client.cache_size >= 1 /\ Len(cache) = client.cache_size )
               => KeySet(cache') =
                    (KeySet(cache) \ {TopK(recency, client.cache_size)[1]})
                        \cup {last'.key}
      ]_vars

C2_Witness ==
    /\ client.cache_size = 2 /\ Len(cache) = 2 /\ Len(recency) = 3
    /\ last.hit /\ recency[1] = [tail |-> [kind |-> "current", a |-> 0, b |-> 0],
                                 all |-> FALSE]

\* C3: when a table request of a query fails, the query raises APIError unless
\* suppress_api_errors is set; if it is set the query returns None, the failing
\* request is the last one sent, and no record is returned.
C3_FailureHandling ==
    Failed(last) =>
        /\ ~client.suppress_api_errors =>
               last.raised = "APIError" /\ last.kind = "raise"
        /\ client.suppress_api_errors =>
               /\ last.raised = "" /\ last.kind = "none" /\ last.ret = <<>>
               /\ \A i \in 1..(Len(last.reqs) - 1) : last.reqs[i].ok

C3_Witness ==
    /\ client.suppress_api_errors /\ last.kind = "none"
    /\ Len(last.reqs) = 2 /\ last.reqs[1].ok /\ ~last.reqs[2].ok

\* C4: date(d) and date_range(s, e) given a malformed date raise InvalidDate,
\* send no request and leave the cache as it was, whatever suppress_api_errors.
C4_InvalidDateBeforeAnyRequest ==
    [][( /\ last'.n # last.n /\ last'.op \in {"date", "date_range"}
         /\ \E i \in 1..Len(last'.dates) : ~validate_date(last'.dates[i]) )
       => (last'.raised = "InvalidDate" /\ last'.reqs = <<>> /\ cache' = cache)
      ]_vars

C4_Witness ==
    /\ last.raised = "InvalidDate" /\ last.op = "date_range"
    /\ last.dates = <<228, 230>> /\ client.suppress_api_errors /\ cache # <<>>

\* the last row of a date in one response carries mid
MidPublished(rows, d) ==
    \E i \in 1..Len(rows) :
        /\ rows[i].effectiveDate = d /\ "mid" \in DOMAIN rows[i]
        /\ \A j \in (i + 1)..Len(rows) : rows[j].effectiveDate # d

\* C5 (SpecData): a sequence returned by last or date_range is strictly
\* ascending by date (so no date twice) and holds a record for exactly the
\* dates whose merged entry has mid.
C5_SortedOnePerDateWithMid ==
    (last.op \in {"last", "date_range"} /\ last.kind = "seq") =>
        /\ \A i \in 1..Len(last.ret), j \in 1..Len(last.ret) :
               i < j => last.ret[i].date < last.ret[j].date
        /\ {last.ret[i].date : i \in 1..Len(last.ret)} =
               {d \in {228, 430} :
                   \E t \in DOMAIN upstream :
                       /\ Lower(t) \in Relevant(last.cur, last.key.all)
                       /\ MidPublished(upstream[t].rows, d)}

C5_Witness ==
    /\ last.op = "date_range" /\ last.kind = "seq" /\ last.key.all
    /\ Len(last.ret) = 2 /\ "bid" \in DOMAIN last.ret[1]
    /\ "A" \in DOMAIN upstream /\ Len(upstream["A"].rows) = 2
    /\ upstream["A"].rows[1].effectiveDate = 430
    /\ upstream["A"].rows[2].effectiveDate = 228

UpperRegistryCode(code) == code \in DOMAIN currencies /\ Upper(code) = code

\* C6 (SpecRates): the currency_code of a client and of a rate object is always
\* an upper-case code of the registry, the upper-case form of the code last
\* assigned with success; a construction or assignment with a code absent from
\* the registry raises UnknownCurrencyCode, whatever suppress_api_errors, and a
\* failed construction leaves no client.
C6_CurrencyCodeValid ==
    /\ client.constructed => UpperRegistryCode(client.currency_code)
    /\ rate # <<>> => UpperRegistryCode(rate[1].obj.currency_code)
    /\ (exc.op # "" /\ Upper(exc.arg) \notin DOMAIN currencies)
           => exc.raised = "UnknownCurrencyCode"
    /\ (exc.op # "" /\ Upper(exc.arg) \in DOMAIN currencies) => exc.raised = ""
    /\ (exc.op \in {"NBPClient", "client.currency_code"} /\ exc.raised = "")
           => client.constructed /\ client.currency_code = Upper(exc.arg)
    /\ (exc.op \in {"NBPExchangeRate", "rate.currency_code"} /\ exc.raised = "")
           => rate # <<>> /\ rate[1].obj.currency_code = Upper(exc.arg)
    /\ (exc.op = "NBPClient" /\ exc.raised # "") => ~client.constructed

C6_Witness ==
    /\ exc.op = "client.currency_code" /\ exc.raised = "UnknownCurrencyCode"
    /\ client.suppress_api_errors /\ client.currency_code = "AFN"
    /\ rate # <<>> /\ rate[1].obj.currency_code = "USD"

\* C7 (SpecRates): r(A) is {mid, bid, ask} times A when r was constructed with
\* both bid and ask, and {mid: A*mid} alone otherwise; r * A and A * r equal r(A).
C7_Conversion ==
    conv # <<>> =>
        LET c == conv[1]
            g == c.of.given
        IN  /\ c.call = IF "bid" \in DOMAIN g /\ "ask" \in DOMAIN g
                        THEN [mid |-> c.amount * c.of.mid,
                              bid |-> c.amount * g.bid,
                              ask |-> c.amount * g.ask]
                        ELSE [mid |-> c.amount * c.of.mid]
            /\ c.mul = c.call
            /\ c.rmul = c.call

C7_Witness ==
    /\ conv # <<>> /\ conv[1].amount = 2
    /\ DOMAIN conv[1].of.given = {"bid", "ask"}
    /\ conv[1].call = [mid |-> 4, bid |-> 2, ask |-> 6]

\* C8: a query that misses the cache and meets no failure sends exactly one GET
\* to each table the registry lists for the currency, none to the spread table
\* (c) unless all_values is set.
C8_TablesRequested ==
    (last.op \in QueryOps /\ last.raised = "" /\ ~last.hit /\ ~Failed(last)) =>
        /\ OnePerTable(last)
        /\ ~last.key.all => \A i \in 1..Len(last.reqs) : last.reqs[i].table # "c"

C8_Witness ==
    /\ last.op = "today" /\ Succeeded(last) /\ ~last.hit /\ last.cur = "USD"
    /\ ~last.key.all /\ Len(last.reqs) = 1 /\ last.reqs[1].table = "a"

\* C9 as stated: every record a query returns carries the currency_code the
\* client has at the time of the call.
C9_RecordsCarryClientCurrency ==
    Succeeded(last) =>
        \A i \in 1..Len(last.ret) : last.ret[i].currency_code = last.cur

\* C10 as stated: a query whose fetch met a transport failure stores nothing in
\* the cache, so no entry is cached under its key.
C10_FailureStoresNothing == Failed(last) => Cached(cache, last.key) = 0

====
